---------------------------- MODULE Spec2Model ----------------------------
(***************************************************************************)
(* A model of the 3D mesh platform: the zustand scene store of App.jsx,    *)
(* the handlers of the App component that read and write it (imports,      *)
(* save, load), and the lighting resolvers of lightingSystem.jsx.          *)
(*                                                                         *)
(* Numbers.  JavaScript numbers are modelled as exact decimals held in     *)
(* integers: knob values (intensities, brightness) in tenths (1.0 is 10),  *)
(* coordinates and distances in hundredths (3.6 is 360), light intensities *)
(* in hundredths (0.15 is 15).  Every input the specifications draw is a   *)
(* multiple of 2.5, so each product with 0.9, 0.8, 1.2, 0.7 and 0.6 below  *)
(* is an exact integer number of hundredths.                               *)
(*                                                                         *)
(* JavaScript values of a kind that is not a TLA+ record (null, undefined, *)
(* a function) are one-field records, so that any two values compare.      *)
(***************************************************************************)
EXTENDS Integers, Sequences, FiniteSets, TLC

VARIABLES
    \* the zustand store (App.jsx 82-137)
    items, library, environment,
    roomLightingPreset, furnitureLightingPreset, roomBounds,
    roomLightIntensity, furnitureLightIntensity, roomMaterialBrightness,
    selectedItem, transformMode,
    \* the App component's surroundings
    glbReads,      \* FileReader reads started by handleFileChange, not yet loaded
    sceneReads,    \* FileReader reads started by handleSceneLoad, not yet loaded
    download,      \* the text of the last scene.json written by handleSave
    alert,         \* the message the last step put in an alert box, "" when none
    exported,      \* the text of the scene_info.json the last step wrote, if any
    nextId,        \* how many ids uuidv4 has returned
    uuids,         \* the ids uuidv4 returns, in the order of its calls
    loading,       \* ids of the items that wait for their model (Suspense)
    mounted,       \* ids of the items whose FurnitureModel effect has run
    mountedRooms,  \* those of them that were mounted as the room (isRoom)
    cache,         \* the urls whose model useGLTF has loaded
    fetching,      \* the urls whose model useGLTF is fetching
    effectBrightness, \* the brightness the mounted models' effects last ran with
    material,      \* the material of the room model's mesh
    rig,           \* the room lights of Scene's last render, Null when none,
                   \* TypeError when the render threw
    last,          \* the name of the last operation
    \* what the lighting resolvers last returned
    roomConfig, furnitureConfig

storeVars == <<items, library, environment, roomLightingPreset,
               furnitureLightingPreset, roomBounds, roomLightIntensity,
               furnitureLightIntensity, roomMaterialBrightness, selectedItem,
               transformMode>>
gltfVars == <<mountedRooms, cache, fetching, effectBrightness>>
appVars == <<glbReads, sceneReads, download, alert, exported, nextId, uuids,
             loading,
             mounted, gltfVars, material, rig, last>>
lightVars == <<roomConfig, furnitureConfig>>
vars == <<storeVars, appVars, lightVars>>

-----------------------------------------------------------------------------
(* JavaScript values *)

\* null where a record (an object) may stand
Null == [null |-> TRUE]
\* undefined: what a property read gives when the property is nowhere
Undefined == [undefined |-> TRUE]
\* null where a string (an item id) may stand
NullId == "null"
\* a lighting configuration not asked for yet
Unresolved == [unresolved |-> TRUE]

Max(a, b) == IF a >= b THEN a ELSE b
Min(a, b) == IF a <= b THEN a ELSE b

\* x * (t / 10), for the decimal factors 0.9, 0.8, 1.2, 0.7 and 0.6
MulTenths(x, t) == (x * t) \div 10


-----------------------------------------------------------------------------
(* Property reads on an object literal: configs[preset] (lightingSystem.jsx *)
(* 303 and 370).  A key the literal does not hold is looked up on          *)
(* Object.prototype, whose members are functions (or, for __proto__, the   *)
(* prototype object): all truthy.                                          *)

ObjectPrototypeKeys ==
    {"constructor", "__proto__", "hasOwnProperty", "isPrototypeOf",
     "propertyIsEnumerable", "toLocaleString", "toString", "valueOf",
     "__defineGetter__", "__defineSetter__", "__lookupGetter__",
     "__lookupSetter__"}

\* the value of Object.prototype[key]
InheritedMember(key) == [inherited |-> key]

\* JavaScript truthiness of a configuration value
Truthy(v) == v # Null /\ v # Undefined

-----------------------------------------------------------------------------
(* getRoomLightingConfig (lightingSystem.jsx 14-304) *)

KnownRoomPresets ==
    {"warm-evening", "bright-day", "cozy-night", "studio-neutral", "sunset"}

\* const ceilingY = maxY * 0.9
ceilingY(b) == MulTenths(b.maxY, 9)

\* const cornerMargin = 0.8, in tenths
cornerMargin == 8

corner1X(b) == b.centerX + MulTenths(b.maxX - b.centerX, cornerMargin)
corner1Z(b) == b.centerZ + MulTenths(b.maxZ - b.centerZ, cornerMargin)
corner2X(b) == b.centerX + MulTenths(b.minX - b.centerX, cornerMargin)
corner2Z(b) == b.centerZ + MulTenths(b.maxZ - b.centerZ, cornerMargin)
corner3X(b) == b.centerX + MulTenths(b.minX - b.centerX, cornerMargin)
corner3Z(b) == b.centerZ + MulTenths(b.minZ - b.centerZ, cornerMargin)
corner4X(b) == b.centerX + MulTenths(b.maxX - b.centerX, cornerMargin)
corner4Z(b) == b.centerZ + MulTenths(b.minZ - b.centerZ, cornerMargin)

roomSize(b) == Max(b.maxX - b.minX, b.maxZ - b.minZ)
lightDistance(b) == MulTenths(roomSize(b), 8)

\* one entry of a pointLights array; every entry has decay 2, castShadow true
PointLight(pos, color, intensity, distance) ==
    [position |-> pos, color |-> color, intensity |-> intensity,
     distance |-> distance, decay |-> 2, castShadow |-> TRUE]

\* a faulty variant of hemispherePosition: the light put at the room's center
hemisphereAtRoomCenter(b) == <<b.centerX, ceilingY(b), b.centerZ>>

\* position: [0, ceilingY, 0], the same in all five presets
hemispherePosition(b) == <<0, ceilingY(b), 0>>

HemisphereLight(sky, ground, intensity, b) ==
    [skyColor |-> sky, groundColor |-> ground, intensity |-> intensity,
     position |-> hemispherePosition(b)]

\* the four corner lights and the center light of the five-light presets
FiveLights(b, c1, c2, c3, c4, cornerIntensity, centerColor, centerIntensity) ==
    << PointLight(<<corner1X(b), ceilingY(b), corner1Z(b)>>, c1,
                  cornerIntensity, lightDistance(b)),
       PointLight(<<corner2X(b), ceilingY(b), corner2Z(b)>>, c2,
                  cornerIntensity, lightDistance(b)),
       PointLight(<<corner3X(b), ceilingY(b), corner3Z(b)>>, c3,
                  cornerIntensity, lightDistance(b)),
       PointLight(<<corner4X(b), ceilingY(b), corner4Z(b)>>, c4,
                  cornerIntensity, lightDistance(b)),
       PointLight(<<b.centerX, ceilingY(b), b.centerZ>>, centerColor,
                  centerIntensity, MulTenths(lightDistance(b), 12)) >>

WarmEvening(b) ==
    [ambientLight |-> [color |-> "#fff5e6", intensity |-> 30],
     hemisphereLight |-> HemisphereLight("#fff5e6", "#8B7355", 40, b),
     pointLights |-> FiveLights(b, "#ffdb99", "#ffdb99", "#ffdb99", "#ffdb99",
                                120, "#ffe4b3", 150)]

BrightDay(b) ==
    [ambientLight |-> [color |-> "#ffffff", intensity |-> 60],
     hemisphereLight |-> HemisphereLight("#87CEEB", "#f0f0f0", 70, b),
     pointLights |-> FiveLights(b, "#ffffff", "#ffffff", "#ffffff", "#ffffff",
                                180, "#f5f5f5", 220)]

\* a faulty variant of cozyNightCenterY: the light left at ceiling height
cozyNightCenterAtCeiling(b) == ceilingY(b)

\* ceilingY - 0.5, the height of the cozy-night center light
cozyNightCenterY(b) == ceilingY(b) - 50

CozyNight(b) ==
    [ambientLight |-> [color |-> "#ffd699", intensity |-> 15],
     hemisphereLight |-> HemisphereLight("#ffd699", "#4a3728", 20, b),
     pointLights |->
       << PointLight(<<corner1X(b), ceilingY(b), corner1Z(b)>>, "#ffb366", 80,
                     MulTenths(lightDistance(b), 7)),
          PointLight(<<corner3X(b), ceilingY(b), corner3Z(b)>>, "#ffb366", 80,
                     MulTenths(lightDistance(b), 7)),
          PointLight(<<b.centerX, cozyNightCenterY(b), b.centerZ>>, "#ffcc80",
                     100, MulTenths(lightDistance(b), 6)) >>]

StudioNeutral(b) ==
    [ambientLight |-> [color |-> "#ffffff", intensity |-> 40],
     hemisphereLight |-> HemisphereLight("#ffffff", "#cccccc", 50, b),
     pointLights |-> FiveLights(b, "#ffffff", "#ffffff", "#ffffff", "#ffffff",
                                140, "#ffffff", 180)]

Sunset(b) ==
    [ambientLight |-> [color |-> "#ffcc99", intensity |-> 25],
     hemisphereLight |-> HemisphereLight("#ff9966", "#8B6347", 35, b),
     pointLights |-> FiveLights(b, "#ff9966", "#ffaa77", "#ff9966", "#ffaa77",
                                100, "#ffbb88", 130)]

\* configs[preset], for the object literal of lines 38-301
roomConfigs(preset, b) ==
    CASE preset = "off"            -> Null
      [] preset = "warm-evening"   -> WarmEvening(b)
      [] preset = "bright-day"     -> BrightDay(b)
      [] preset = "cozy-night"     -> CozyNight(b)
      [] preset = "studio-neutral" -> StudioNeutral(b)
      [] preset = "sunset"         -> Sunset(b)
      [] preset \in ObjectPrototypeKeys -> InheritedMember(preset)
      [] OTHER                     -> Undefined

getRoomLightingConfig(preset, b) ==
    IF b = Null THEN Null
    ELSE IF Truthy(roomConfigs(preset, b)) THEN roomConfigs(preset, b)
    ELSE Null

-----------------------------------------------------------------------------
(* getFurnitureLightingConfig (lightingSystem.jsx 311-371) *)

KnownFurniturePresets == {"default", "bright", "soft", "dramatic"}

FurnitureEntry(ambient, color, pos, intensity) ==
    [ambientLight |-> [color |-> "#ffffff", intensity |-> ambient],
     directionalLight |-> [color |-> color, position |-> pos,
                           intensity |-> intensity, castShadow |-> TRUE,
                           shadowMapSize |-> <<2048, 2048>>]]

furnitureConfigs(preset) ==
    CASE preset = "default"  -> FurnitureEntry(10, "#fff1e0", <<5, 10, 7>>, 180)
      [] preset = "bright"   -> FurnitureEntry(30, "#ffffff", <<5, 10, 7>>, 250)
      [] preset = "soft"     -> FurnitureEntry(40, "#fff5e6", <<5, 10, 7>>, 120)
      [] preset = "dramatic" -> FurnitureEntry(5, "#ffffff", <<8, 15, 10>>, 300)
      [] preset \in ObjectPrototypeKeys -> InheritedMember(preset)
      [] OTHER               -> Undefined

getFurnitureLightingConfig(preset) ==
    IF Truthy(furnitureConfigs(preset)) THEN furnitureConfigs(preset)
    ELSE furnitureConfigs("default")

-----------------------------------------------------------------------------
(* FurnitureLights (lightingSystem.jsx 455-477) and RoomLights             *)
(* (lightingSystem.jsx 409-447), rendered by Scene, the latter while there *)
(* are bounds (App.jsx 272-276).  Scene selects the presets, the bounds    *)
(* and the intensities from the store (App.jsx 257-263): it renders again, *)
(* with the store's new values, when one of them has changed, and the      *)
(* lights of its last render stay in the canvas until then.  A render in   *)
(* which one of the two components throws gives no lights: the render of   *)
(* Scene fails.                                                            *)

\* what reading config.ambientLight.color throws when config has no
\* ambientLight
TypeError == [threw |-> "TypeError"]

\* a light with its intensity multiplied
Dimmed(light, intensityMultiplier) ==
    [light EXCEPT !.intensity = MulTenths(@, intensityMultiplier)]

RoomLights(preset, bounds, intensityMultiplier) ==
    IF preset = "off" \/ ~Truthy(bounds) THEN Null
    ELSE LET config == getRoomLightingConfig(preset, bounds)
         IN  IF ~Truthy(config) THEN Null
             ELSE IF "ambientLight" \notin DOMAIN config THEN TypeError
             ELSE [ambientLight |->
                      Dimmed(config.ambientLight, intensityMultiplier),
                   hemisphereLight |->
                      Dimmed(config.hemisphereLight, intensityMultiplier),
                   pointLights |->
                      [i \in DOMAIN config.pointLights |->
                         Dimmed(config.pointLights[i], intensityMultiplier)]]

\* FurnitureLights (lightingSystem.jsx 455-477): it reads
\* config.ambientLight.color of whatever the resolver returned
FurnitureLights(preset, intensityMultiplier) ==
    LET config == getFurnitureLightingConfig(preset)
    IN  IF "ambientLight" \notin DOMAIN config THEN TypeError
        ELSE [ambientLight |->
                 Dimmed(config.ambientLight, intensityMultiplier),
              directionalLight |->
                 Dimmed(config.directionalLight, intensityMultiplier)]

\* the room lights of a render of Scene (App.jsx 272-276): FurnitureLights
\* is rendered first, and the render fails when it throws
SceneLights(furniturePreset, furnitureMultiplier, preset, bounds, multiplier) ==
    IF FurnitureLights(furniturePreset, furnitureMultiplier) = TypeError
    THEN TypeError
    ELSE RoomLights(preset, bounds, multiplier)

\* a faulty variant of Render: Scene renders again only when the preset has
\* changed
RenderOnPresetChange ==
    rig' = IF roomLightingPreset' # roomLightingPreset
           THEN SceneLights(furnitureLightingPreset', furnitureLightIntensity',
                            roomLightingPreset', roomBounds',
                            roomLightIntensity')
           ELSE rig

\* what Scene selects from the store (App.jsx 257-263)
SceneSelection ==
    <<environment, roomLightingPreset, furnitureLightingPreset, roomBounds,
      roomLightIntensity, furnitureLightIntensity>>

\* the lights in the canvas after a step: those of a new render of Scene
\* when the step changed what Scene selects, the ones that were there
\* otherwise
Render ==
    rig' = IF SceneSelection' # SceneSelection
           THEN SceneLights(furnitureLightingPreset', furnitureLightIntensity',
                            roomLightingPreset', roomBounds',
                            roomLightIntensity')
           ELSE rig

\* the first render
RenderInit ==
    rig = SceneLights(furnitureLightingPreset, furnitureLightIntensity,
                      roomLightingPreset, roomBounds, roomLightIntensity)

-----------------------------------------------------------------------------
(* Item ids *)

\* at most this many calls of uuidv4
MaxIds == 2

\* The values of uuidv4() (App.jsx 6, 323).  A version 4 UUID is 122 random
\* bits: nothing keeps a call from returning what another call returned.
\* The ids of the model are these strings, and uuids holds the ones the
\* calls of a run return, in order.
Uuids == {"uuid-" \o ToString(n) : n \in 1..MaxIds}

\* the values of a run in which no call repeats another's
FreshUuids == [n \in 1..MaxIds |-> "uuid-" \o ToString(n)]

\* uuidv4(): the next value
uuidv4 == uuids[nextId + 1]

-----------------------------------------------------------------------------
(* The store as create() leaves it (App.jsx 82-137), and the surroundings  *)
(* before any event.                                                       *)

StoreInit ==
    /\ items = <<>>
    /\ library = <<>>
    /\ environment = "studio"
    /\ roomLightingPreset = "warm-evening"
    /\ furnitureLightingPreset = "default"
    /\ roomBounds = Null
    /\ roomLightIntensity = 10
    /\ furnitureLightIntensity = 10
    /\ roomMaterialBrightness = 10
    /\ selectedItem = NullId
    /\ transformMode = "translate"

AppInit ==
    /\ glbReads = <<>>
    /\ sceneReads = <<>>
    /\ download = Null
    /\ alert = ""
    /\ exported = Null
    /\ nextId = 0
    /\ uuids = FreshUuids
    /\ loading = {}
    /\ mounted = {}
    /\ mountedRooms = {}
    /\ cache = {}
    /\ fetching = {}
    /\ effectBrightness = 10
    /\ last = "create"

LightInit ==
    /\ roomConfig = Unresolved
    /\ furnitureConfig = Unresolved

-----------------------------------------------------------------------------
(* The store's operations (App.jsx 86-136).  Each is set(...) with the     *)
(* fields it names; zustand's set merges them into the state and leaves    *)
(* every other field as it was.  The FurnitureModel effects and cleanups   *)
(* that write roomBounds run later, in React's commit (Commit below).      *)

\* { ...a, ...b }: b's keys over a's
Spread(a, b) ==
    [k \in DOMAIN a \cup DOMAIN b |-> IF k \in DOMAIN b THEN b[k] ELSE a[k]]

setEnvironment(env) ==
    /\ environment' = env
    /\ UNCHANGED <<items, library, roomLightingPreset, furnitureLightingPreset,
                   roomBounds, roomLightIntensity, furnitureLightIntensity,
                   roomMaterialBrightness, selectedItem, transformMode>>

setRoomLightingPreset(preset) ==
    /\ roomLightingPreset' = preset
    /\ UNCHANGED <<items, library, environment, furnitureLightingPreset,
                   roomBounds, roomLightIntensity, furnitureLightIntensity,
                   roomMaterialBrightness, selectedItem, transformMode>>

setFurnitureLightingPreset(preset) ==
    /\ furnitureLightingPreset' = preset
    /\ UNCHANGED <<items, library, environment, roomLightingPreset,
                   roomBounds, roomLightIntensity, furnitureLightIntensity,
                   roomMaterialBrightness, selectedItem, transformMode>>

setRoomBounds(bounds) ==
    /\ roomBounds' = bounds
    /\ UNCHANGED <<items, library, environment, roomLightingPreset,
                   furnitureLightingPreset, roomLightIntensity,
                   furnitureLightIntensity, roomMaterialBrightness,
                   selectedItem, transformMode>>

setRoomLightIntensity(intensity) ==
    /\ roomLightIntensity' = intensity
    /\ UNCHANGED <<items, library, environment, roomLightingPreset,
                   furnitureLightingPreset, roomBounds,
                   furnitureLightIntensity, roomMaterialBrightness,
                   selectedItem, transformMode>>

setFurnitureLightIntensity(intensity) ==
    /\ furnitureLightIntensity' = intensity
    /\ UNCHANGED <<items, library, environment, roomLightingPreset,
                   furnitureLightingPreset, roomBounds, roomLightIntensity,
                   roomMaterialBrightness, selectedItem, transformMode>>

setRoomMaterialBrightness(brightness) ==
    /\ roomMaterialBrightness' = brightness
    /\ UNCHANGED <<items, library, environment, roomLightingPreset,
                   furnitureLightingPreset, roomLightIntensity,
                   furnitureLightIntensity, selectedItem, transformMode>>

addLibraryItem(newItem) ==
    /\ library' = Append(library, newItem)
    /\ UNCHANGED <<items, environment, roomLightingPreset,
                   furnitureLightingPreset, roomBounds, roomLightIntensity,
                   furnitureLightIntensity, roomMaterialBrightness,
                   selectedItem, transformMode>>

\* a faulty variant of removeLibraryItem: the items of the asset stay
removeLibraryEntry(url) ==
    /\ library' = SelectSeq(library, LAMBDA item : item.url # url)
    /\ items' = items
    /\ UNCHANGED <<environment, roomLightingPreset, furnitureLightingPreset,
                   roomLightIntensity, furnitureLightIntensity,
                   roomMaterialBrightness, selectedItem, transformMode>>

removeLibraryItem(url) ==
    /\ library' = SelectSeq(library, LAMBDA item : item.url # url)
    /\ items' = SelectSeq(items, LAMBDA item : item.url # url)
    /\ UNCHANGED <<environment, roomLightingPreset, furnitureLightingPreset,
                   roomLightIntensity, furnitureLightIntensity,
                   roomMaterialBrightness, selectedItem, transformMode>>

addItem(item) ==
    /\ items' = Append(items, item)
    /\ UNCHANGED <<library, environment, roomLightingPreset,
                   furnitureLightingPreset, roomLightIntensity,
                   furnitureLightIntensity, roomMaterialBrightness,
                   selectedItem, transformMode>>

\* a faulty variant of updateItem: an id that no item has gets a new item
updateOrInsertItem(id, newProps) ==
    /\ items' = IF \E i \in DOMAIN items : items[i].id = id
                THEN [i \in DOMAIN items |->
                        IF items[i].id = id THEN Spread(items[i], newProps)
                        ELSE items[i]]
                ELSE Append(items, Spread([id |-> id], newProps))
    /\ UNCHANGED <<library, environment, roomLightingPreset,
                   furnitureLightingPreset, roomBounds, roomLightIntensity,
                   furnitureLightIntensity, roomMaterialBrightness,
                   selectedItem, transformMode>>

\* a faulty variant of updateItem: the props take the item's place
replaceItem(id, newProps) ==
    /\ items' = [i \in DOMAIN items |->
                   IF items[i].id = id THEN Spread([id |-> id], newProps)
                   ELSE items[i]]
    /\ UNCHANGED <<library, environment, roomLightingPreset,
                   furnitureLightingPreset, roomBounds, roomLightIntensity,
                   furnitureLightIntensity, roomMaterialBrightness,
                   selectedItem, transformMode>>

updateItem(id, newProps) ==
    /\ items' = [i \in DOMAIN items |->
                   IF items[i].id = id THEN Spread(items[i], newProps)
                   ELSE items[i]]
    /\ UNCHANGED <<library, environment, roomLightingPreset,
                   furnitureLightingPreset, roomBounds, roomLightIntensity,
                   furnitureLightIntensity, roomMaterialBrightness,
                   selectedItem, transformMode>>

\* a faulty variant of deleteItem: the selection goes only with its item
deleteItemOfSelection(id) ==
    /\ items' = SelectSeq(items, LAMBDA item : item.id # id)
    /\ selectedItem' = IF selectedItem = id THEN NullId ELSE selectedItem
    /\ UNCHANGED <<library, environment, roomLightingPreset,
                   furnitureLightingPreset, roomLightIntensity,
                   furnitureLightIntensity, roomMaterialBrightness,
                   transformMode>>

deleteItem(id) ==
    /\ items' = SelectSeq(items, LAMBDA item : item.id # id)
    /\ selectedItem' = NullId
    /\ UNCHANGED <<library, environment, roomLightingPreset,
                   furnitureLightingPreset, roomLightIntensity,
                   furnitureLightIntensity, roomMaterialBrightness,
                   transformMode>>

setSelectedItem(id) ==
    /\ selectedItem' = id
    /\ UNCHANGED <<items, library, environment, roomLightingPreset,
                   furnitureLightingPreset, roomBounds, roomLightIntensity,
                   furnitureLightIntensity, roomMaterialBrightness,
                   transformMode>>

setTransformMode(mode) ==
    /\ transformMode' = mode
    /\ UNCHANGED <<items, library, environment, roomLightingPreset,
                   furnitureLightingPreset, roomBounds, roomLightIntensity,
                   furnitureLightIntensity, roomMaterialBrightness,
                   selectedItem>>

-----------------------------------------------------------------------------
(* Scene documents: JSON values, JSON text, save and load.                 *)
(*                                                                         *)
(* A JSON value carries its kind: a number is [num |-> n], a string        *)
(* [str |-> s], an array [list |-> q], null is Null, an object is          *)
(* [obj |-> f] with f giving each of the document's keys its value, or     *)
(* Undefined for a key the object does not hold.  The entries of the items *)
(* and library arrays are the store's own records.  A text is [json |-> v] *)
(* when it is the JSON of v, and [raw |-> s] when it is no JSON at all.    *)

Num(n) == [num |-> n]
Str(s) == [str |-> s]
List(q) == [list |-> q]
Obj(f) == [obj |-> f]

\* the keys handleSave writes and loadScene reads
DocKeys ==
    {"library", "items", "environment", "roomLightingPreset",
     "furnitureLightingPreset", "roomLightIntensity",
     "furnitureLightIntensity", "roomMaterialBrightness"}

\* the object {}
EmptyObject == [k \in DocKeys |-> Undefined]

\* the JavaScript value of a number, string or array
Plain(v) ==
    CASE "num" \in DOMAIN v  -> v.num
      [] "str" \in DOMAIN v  -> v.str
      [] "list" \in DOMAIN v -> v.list

\* v.key: undefined when v is a number, a string or an array, or an object
\* without the key
Member(v, key) ==
    IF "obj" \in DOMAIN v THEN v.obj[key] ELSE Undefined

\* a || d
OrElse(v, d) ==
    IF v \in {Undefined, Null, Num(0), Str("")} THEN d ELSE v

\* JSON.stringify and JSON.parse; parsing a text that is no JSON throws
JSONstringify(v) == [json |-> v]
JSONparses(text) == "json" \in DOMAIN text
JSONparse(text) == text.json

-----------------------------------------------------------------------------
(* Files the user can pick, and FileReader *)

\* event.target.files[0] of a file dialog closed without a file
NoFile == [nofile |-> TRUE]

\* name.endsWith('.glb'), over the names the model's files carry
EndsWithGlb(name) == name \in {"Room.glb", "room.glb", "chair.glb", "stool.glb"}

\* name.endsWith('.json')
EndsWithJson(name) == name \in {"scene.json", "saved.json"}

\* reader.readAsDataURL: the url that embeds the file's bytes
DataURL(content) == "data:application/octet-stream;base64," \o content

\* the .glb files and the other file on the user's disk; stool.glb holds the
\* same bytes as chair.glb under another name
DiskFiles ==
    {[name |-> "Room.glb", content |-> "Um9vbQ"],
     [name |-> "chair.glb", content |-> "Q2hhaXI"],
     [name |-> "stool.glb", content |-> "Q2hhaXI"],
     [name |-> "notes.txt", content |-> "Tm90ZXM"]}

\* the elements of a sequence
Range(s) == {s[i] : i \in DOMAIN s}

\* s without its i-th element
RemoveAt(s, i) == SubSeq(s, 1, i - 1) \o SubSeq(s, i + 1, Len(s))

-----------------------------------------------------------------------------
(* FurnitureModel and the room's bounds (App.jsx 140-206).  The scene      *)
(* renders one FurnitureModel per item, keyed by the item's id.  Its       *)
(* effect runs once useGLTF has the model, and again when the brightness   *)
(* changes; its cleanup runs before each rerun and when the item leaves    *)
(* the scene.                                                              *)

\* name.toLowerCase(), over the names the model's files carry
toLowerCase(name) == IF name = "Room.glb" THEN "room.glb" ELSE name

\* isRoom (App.jsx 148)
isRoom(name) == toLowerCase(name) = "room.glb"

\* new THREE.Box3().setFromObject(roomScene), for the room model of the
\* model's files: 10 x 4 x 10, standing on the floor around the origin
RoomBox == [min |-> <<-500, 0, -500>>, max |-> <<500, 400, 500>>]

\* calculateRoomBounds (lightingSystem.jsx 382-396)
calculateRoomBounds(box) ==
    [minX |-> box.min[1], maxX |-> box.max[1],
     minY |-> box.min[2], maxY |-> box.max[2],
     minZ |-> box.min[3], maxZ |-> box.max[3],
     centerX |-> (box.min[1] + box.max[1]) \div 2,
     centerY |-> (box.min[2] + box.max[2]) \div 2,
     centerZ |-> (box.min[3] + box.max[3]) \div 2]

\* the mounted items that are not among the items any more
Unmounted(after) ==
    {id \in mounted : \A i \in DOMAIN after : after[i].id # id}

\* a THREE.Color, its channels in thousandths
Rgb(r, g, b) == [r |-> r, g |-> g, b |-> b]

\* material.userData of a material no effect has touched: {}
NoUserData ==
    [originalColor |-> Undefined, originalEmissive |-> Undefined,
     originalEmissiveIntensity |-> Undefined]

\* The materials a room model can come with: a standard material with
\* three.js's emissive defaults (black, intensity 1), a standard material
\* that glows, with emissive intensity 0, and a basic material, which has no
\* emissive term at all.  Intensities are in hundredths.
RoomMaterials ==
    {[name |-> "wall", color |-> Rgb(800, 400, 200),
      emissive |-> Rgb(0, 0, 0), emissiveIntensity |-> Num(100),
      userData |-> NoUserData],
     [name |-> "lamp", color |-> Rgb(1000, 600, 0),
      emissive |-> Rgb(1000, 1000, 500), emissiveIntensity |-> Num(0),
      userData |-> NoUserData],
     [name |-> "flat", color |-> Rgb(300, 300, 300),
      emissive |-> Undefined, emissiveIntensity |-> Undefined,
      userData |-> NoUserData]}

\* the material of the room model of the model's files
RoomMaterial == CHOOSE m \in RoomMaterials : m.name = "wall"

\* the room model as the file holds it, before any effect
ModelInit == material = RoomMaterial

\* (roomMaterialBrightness - 1) * 0.5 (App.jsx 180), in hundredths
glowIntensity(brightness) == (brightness - 10) * 5

\* a faulty variant of the userData of applyBrightness: the baseline is
\* captured at every application
recapturedUserData(m) ==
    [originalColor |-> m.color,
     originalEmissive |-> IF Truthy(m.emissive) THEN m.emissive ELSE Null,
     originalEmissiveIntensity |-> OrElse(m.emissiveIntensity, Num(0))]

\* the userData after the capture of the baseline (App.jsx 160-165): captured
\* when there is no originalColor yet
capturedUserData(m) ==
    IF ~Truthy(m.userData.originalColor)
    THEN [originalColor |-> m.color,
          originalEmissive |-> IF Truthy(m.emissive) THEN m.emissive ELSE Null,
          originalEmissiveIntensity |-> OrElse(m.emissiveIntensity, Num(0))]
    ELSE m.userData

\* the brightness adjustment of a room material (App.jsx 159-185)
applyBrightness(m, brightness) ==
    LET userData == capturedUserData(m)
        originalColor == userData.originalColor
    IN  [name |-> m.name,
         color |-> Rgb(Min(MulTenths(originalColor.r, brightness), 1000),
                       Min(MulTenths(originalColor.g, brightness), 1000),
                       Min(MulTenths(originalColor.b, brightness), 1000)),
         emissive |->
            IF Truthy(m.emissive) /\ Truthy(userData.originalEmissive)
            THEN userData.originalEmissive
            ELSE m.emissive,
         emissiveIntensity |->
            IF Truthy(m.emissive)
            THEN Num(userData.originalEmissiveIntensity.num
                     + glowIntensity(brightness))
            ELSE m.emissiveIntensity,
         userData |-> userData]

\* the ids of the room items
RoomIds(its) == {its[i].id : i \in {j \in DOMAIN its : isRoom(its[j].name)}}

\* the ids and the urls of items
IdsOf(its) == {its[i].id : i \in DOMAIN its}
UrlOf(its, id) == its[CHOOSE i \in DOMAIN its : its[i].id = id].url

\* The items that React has to bring into the canvas: neither rendered nor
\* waiting for their model.
Entering == IdsOf(items) \ (mounted \cup loading)

\* A commit of the canvas tree is due: FurnitureItems (App.jsx 242-253)
\* renders other items than the store holds, or the effects of the mounted
\* models ran with another brightness than the store's (App.jsx 206).
CommitPending ==
    \/ Unmounted(items) # {}
    \/ Entering # {}
    \/ loading \ IdsOf(items) # {}
    \/ mounted # {} /\ effectBrightness # roomMaterialBrightness

\* The render of FurnitureItems after a step (App.jsx 242-253): the
\* FurnitureModel of an item that is not in the canvas yet calls
\* useGLTF(url) (App.jsx 141), which starts the fetch of a url it has
\* neither loaded nor begun to fetch, and suspends.  The fetch goes on
\* whatever becomes of the item.
RenderFurnitureItems ==
    fetching' = fetching \cup
       {items'[i].url : i \in {j \in DOMAIN items' :
                                 /\ items'[j].id \notin mounted \cup loading
                                 /\ items'[j].url \notin cache}}

\* a faulty variant of CommitEffects: the effect has no cleanup, the bounds
\* of a room that left the scene stay
CommitEffectsWithoutCleanup ==
    LET gone == Unmounted(items)
        kept == mounted \ gone
        cached == {id \in Entering : UrlOf(items, id) \in cache}
        again == IF effectBrightness # roomMaterialBrightness
                 THEN kept \cap mountedRooms ELSE {}
        ran == again \cup (cached \cap RoomIds(items))
    IN  /\ mounted' = kept \cup cached
        /\ mountedRooms' = (mountedRooms \ gone)
                             \cup (cached \cap RoomIds(items))
        /\ loading' = (loading \cap IdsOf(items)) \cup (Entering \ cached)
        /\ roomBounds' = IF ran # {} THEN calculateRoomBounds(RoomBox)
                         ELSE roomBounds
        /\ material' = IF ran # {}
                       THEN applyBrightness(material, roomMaterialBrightness)
                       ELSE material
        /\ effectBrightness' = roomMaterialBrightness
        /\ UNCHANGED <<cache, fetching>>

\* The effects and cleanups of a commit.  FurnitureItems renders one model
\* per item (App.jsx 242-253): the models of the items that left the scene
\* are unmounted; an item that came in is mounted at once when useGLTF has
\* its url in the cache (App.jsx 141), and waits for the model otherwise
\* (behind the fallback of its Suspense), the fetch having begun in the
\* render.
\* The cleanups run first (App.jsx 200-205), those of the rooms that left
\* the scene and, when the brightness changed, those of the rooms that
\* stay; then the effects run (App.jsx 150-198), those of the rooms that
\* stay, again, and those of the rooms mounted in this commit: they adjust
\* the material to the brightness and set the bounds.
CommitEffects ==
    LET gone == Unmounted(items)
        kept == mounted \ gone
        cached == {id \in Entering : UrlOf(items, id) \in cache}
        again == IF effectBrightness # roomMaterialBrightness
                 THEN kept \cap mountedRooms ELSE {}
        ran == again \cup (cached \cap RoomIds(items))
    IN  /\ mounted' = kept \cup cached
        /\ mountedRooms' = (mountedRooms \ gone)
                             \cup (cached \cap RoomIds(items))
        /\ loading' = (loading \cap IdsOf(items)) \cup (Entering \ cached)
        /\ roomBounds' = IF ran # {} THEN calculateRoomBounds(RoomBox)
                         ELSE IF gone \cap mountedRooms # {} THEN Null
                         ELSE roomBounds
        /\ material' = IF ran # {}
                       THEN applyBrightness(material, roomMaterialBrightness)
                       ELSE material
        /\ effectBrightness' = roomMaterialBrightness
        /\ UNCHANGED <<cache, fetching>>

-----------------------------------------------------------------------------
(* The scene editor: imports, the library panel, the items and the         *)
(* selection.                                                              *)

\* at most this many library entries, in the library or being read
MaxLibrary == 2
\* what a gizmo drag can leave on the dragged object
DragTransforms ==
    {[position |-> <<2, 1, -3>>, rotation |-> <<0, 0, 0>>, scale |-> <<1, 1, 1>>],
     [position |-> <<0, 1, 0>>, rotation |-> <<0, 1, 0>>, scale |-> <<2, 2, 2>>]}

\* handleFileChange (App.jsx 374-393)
HandleFileChange ==
    /\ ~CommitPending
    /\ \E file \in DiskFiles \cup {NoFile} :
          IF file # NoFile /\ EndsWithGlb(file.name)
          THEN IF \E i \in DOMAIN library : library[i].name = file.name
               THEN /\ alert' = file.name \o " is already in the library."
                    /\ UNCHANGED glbReads
               ELSE /\ Len(library) + Len(glbReads) < MaxLibrary
                    /\ glbReads' = Append(glbReads, file)
                    /\ alert' = ""
          ELSE /\ alert' = "Please select a .glb file."
               /\ UNCHANGED glbReads
    /\ last' = "handleFileChange"
    /\ exported' = Null
    /\ UNCHANGED <<storeVars, sceneReads, download, nextId, uuids, mounted,
                   loading,
                   material, lightVars>>
    /\ UNCHANGED <<mountedRooms, cache, effectBrightness>>
    /\ RenderFurnitureItems
    /\ Render

\* reader.onload of handleFileChange (App.jsx 383-385); reads end in any order
GlbReaderOnload ==
    /\ \E i \in DOMAIN glbReads :
          /\ addLibraryItem([name |-> glbReads[i].name,
                             url |-> DataURL(glbReads[i].content)])
          /\ glbReads' = RemoveAt(glbReads, i)
    /\ alert' = ""
    /\ last' = "addLibraryItem"
    /\ exported' = Null
    /\ UNCHANGED <<sceneReads, download, nextId, uuids, mounted, loading,
                   material, lightVars>>
    /\ UNCHANGED <<mountedRooms, cache, effectBrightness>>
    /\ RenderFurnitureItems
    /\ Render

\* the X button of a library entry (App.jsx 340)
RemoveLibraryItemClick ==
    /\ ~CommitPending
    /\ \E i \in DOMAIN library : removeLibraryItem(library[i].url)
    /\ UNCHANGED <<roomBounds, mounted, loading, material>>
    /\ alert' = ""
    /\ last' = "removeLibraryItem"
    /\ exported' = Null
    /\ UNCHANGED <<glbReads, sceneReads, download, nextId, uuids, lightVars>>
    /\ UNCHANGED <<mountedRooms, cache, effectBrightness>>
    /\ RenderFurnitureItems
    /\ Render

\* handleAddItemToScene (App.jsx 320-329)
HandleAddItemToScene ==
    /\ ~CommitPending
    /\ nextId < Len(uuids)
    /\ \E i \in DOMAIN library :
          addItem(Spread(library[i],
                         [id |-> uuidv4,
                          position |-> <<0, 1, 0>>,
                          rotation |-> <<0, 0, 0>>,
                          scale |-> <<1, 1, 1>>]))
    /\ UNCHANGED <<roomBounds, mounted, loading, material>>
    /\ nextId' = nextId + 1
    /\ UNCHANGED uuids
    /\ alert' = ""
    /\ last' = "addItem"
    /\ exported' = Null
    /\ UNCHANGED <<glbReads, sceneReads, download, lightVars>>
    /\ UNCHANGED <<mountedRooms, cache, effectBrightness>>
    /\ RenderFurnitureItems
    /\ Render

\* handleDragEnd (App.jsx 211-220): the gizmo is enabled on the selected item
HandleDragEnd ==
    /\ ~CommitPending
    /\ \E i \in DOMAIN items, t \in DragTransforms :
          /\ items[i].id = selectedItem
          /\ updateItem(items[i].id, t)
    /\ alert' = ""
    /\ last' = "updateItem"
    /\ exported' = Null
    /\ UNCHANGED <<glbReads, sceneReads, download, nextId, uuids, mounted,
                   loading,
                   material, lightVars>>
    /\ UNCHANGED <<mountedRooms, cache, effectBrightness>>
    /\ RenderFurnitureItems
    /\ Render

\* handleDragEnd (App.jsx 211-220) for a mouseUp that reaches the listener of
\* a FurnitureModel whose item has left the scene, before the cleanup
\* (App.jsx 222) has taken the listener away
HandleDragEndAfterRemoval ==
    /\ \E id \in Unmounted(items), t \in DragTransforms :
          updateItem(id, t)
    /\ alert' = ""
    /\ last' = "updateItem"
    /\ exported' = Null
    /\ UNCHANGED <<glbReads, sceneReads, download, nextId, uuids, mounted,
                   loading,
                   material, lightVars>>
    /\ UNCHANGED <<mountedRooms, cache, effectBrightness>>
    /\ RenderFurnitureItems
    /\ Render

\* handleDelete (App.jsx 299-301): the panel exists while the selection
\* resolves to an item (App.jsx 292-294)
HandleDelete ==
    /\ ~CommitPending
    /\ \E i \in DOMAIN items : items[i].id = selectedItem
    /\ deleteItem(selectedItem)
    /\ UNCHANGED <<roomBounds, mounted, loading, material>>
    /\ alert' = ""
    /\ last' = "deleteItem"
    /\ exported' = Null
    /\ UNCHANGED <<glbReads, sceneReads, download, nextId, uuids, lightVars>>
    /\ UNCHANGED <<mountedRooms, cache, effectBrightness>>
    /\ RenderFurnitureItems
    /\ Render

\* a click on a rendered item (App.jsx 236) or on the floor (App.jsx 278)
ClickSelect ==
    /\ ~CommitPending
    /\ \E id \in ({items[i].id : i \in DOMAIN items} \cap mounted) \cup {NullId} :
          setSelectedItem(id)
    /\ alert' = ""
    /\ last' = "setSelectedItem"
    /\ exported' = Null
    /\ UNCHANGED <<glbReads, sceneReads, download, nextId, uuids, mounted,
                   loading,
                   material, lightVars>>
    /\ UNCHANGED <<mountedRooms, cache, effectBrightness>>
    /\ RenderFurnitureItems
    /\ Render

\* The commit of the canvas tree after the store changed: the cleanups and
\* the effects of the FurnitureModels (App.jsx 150-206), called by React
\* after the handler that changed the store has returned.
Commit ==
    /\ CommitPending
    /\ CommitEffects
    /\ alert' = ""
    /\ last' = "commit"
    /\ exported' = Null
    /\ UNCHANGED <<items, library, environment, roomLightingPreset,
                   furnitureLightingPreset, roomLightIntensity,
                   furnitureLightIntensity, roomMaterialBrightness,
                   selectedItem, transformMode>>
    /\ UNCHANGED <<glbReads, sceneReads, download, nextId, uuids, lightVars>>
    /\ Render

\* useGLTF has the model of a url (App.jsx 141): the FurnitureModels of the
\* items that waited for it render and their effects run (App.jsx 150-198)
FurnitureModelEffect ==
    /\ ~CommitPending
    /\ \E url \in fetching :
          LET arrived == {id \in loading \cap IdsOf(items) :
                            UrlOf(items, id) = url}
          IN  /\ arrived # {}
              /\ IF arrived \cap RoomIds(items) # {}
                 THEN /\ material' = applyBrightness(material,
                                                     roomMaterialBrightness)
                      /\ setRoomBounds(calculateRoomBounds(RoomBox))
                 ELSE UNCHANGED <<storeVars, material>>
              /\ loading' = loading \ arrived
              /\ mounted' = mounted \cup arrived
              /\ mountedRooms' = mountedRooms
                                   \cup (arrived \cap RoomIds(items))
              /\ cache' = cache \cup {url}
              /\ fetching' = fetching \ {url}
    /\ effectBrightness' = roomMaterialBrightness
    /\ alert' = ""
    /\ last' = "setRoomBounds"
    /\ exported' = Null
    /\ UNCHANGED <<glbReads, sceneReads, download, nextId, uuids, lightVars>>
    /\ Render

\* useGLTF has the model of a url for which no item of the scene waits, its
\* items having left the scene while it was fetched: FurnitureItems
\* (App.jsx 242-253) renders no FurnitureModel for them, so no effect runs
GltfLoadedForRemovedItem ==
    /\ \E url \in fetching :
          /\ \A id \in loading \cap IdsOf(items) : UrlOf(items, id) # url
          /\ cache' = cache \cup {url}
          /\ fetching' = fetching \ {url}
    /\ alert' = ""
    /\ last' = "useGLTF"
    /\ exported' = Null
    /\ UNCHANGED <<storeVars, glbReads, sceneReads, download, nextId, uuids,
                   mounted,
                   mountedRooms, effectBrightness, loading, material,
                   lightVars>>
    /\ Render

\* the Move, Rotate and Scale buttons (App.jsx 481-495)
ChangeTransformMode ==
    /\ ~CommitPending
    /\ \E mode \in {"translate", "rotate", "scale"} : setTransformMode(mode)
    /\ alert' = ""
    /\ last' = "setTransformMode"
    /\ exported' = Null
    /\ UNCHANGED <<glbReads, sceneReads, download, nextId, uuids, mounted,
                   loading,
                   material, lightVars>>
    /\ UNCHANGED <<mountedRooms, cache, effectBrightness>>
    /\ RenderFurnitureItems
    /\ Render

\* a faulty variant of itemInfo: the item as the store holds it
itemWithPayload(item) == item

\* itemsInfo's entry for an item (App.jsx 438-444)
itemInfo(item) ==
    [id |-> item.id, name |-> item.name, position |-> item.position,
     rotation |-> item.rotation, scale |-> item.scale]

\* the infoData of handleExportInfo (App.jsx 446-455): no library key
handleExportInfoData ==
    Obj([library |-> Undefined,
         items |-> List([i \in DOMAIN items |-> itemInfo(items[i])]),
         environment |-> Str(environment),
         roomLightingPreset |-> Str(roomLightingPreset),
         furnitureLightingPreset |-> Str(furnitureLightingPreset),
         roomLightIntensity |-> Num(roomLightIntensity),
         furnitureLightIntensity |-> Num(furnitureLightIntensity),
         roomMaterialBrightness |-> Num(roomMaterialBrightness)])

\* handleExportInfo (App.jsx 435-465)
HandleExportInfo ==
    /\ ~CommitPending
    /\ exported' = JSONstringify(handleExportInfoData)
    /\ alert' = ""
    /\ last' = "handleExportInfo"
    /\ UNCHANGED <<storeVars, glbReads, sceneReads, download, nextId, uuids,
                   mounted,
                   loading,
                   material, lightVars>>
    /\ UNCHANGED <<mountedRooms, cache, effectBrightness>>
    /\ RenderFurnitureItems
    /\ Render

Init == StoreInit /\ AppInit /\ ModelInit /\ RenderInit /\ LightInit

Next ==
    \/ HandleFileChange
    \/ GlbReaderOnload
    \/ RemoveLibraryItemClick
    \/ HandleAddItemToScene
    \/ HandleDragEnd
    \/ HandleDragEndAfterRemoval
    \/ HandleDelete
    \/ ClickSelect
    \/ FurnitureModelEffect
    \/ GltfLoadedForRemovedItem
    \/ HandleExportInfo
    \/ Commit

Spec == Init /\ [][Next]_vars

-----------------------------------------------------------------------------
(* Saving and loading scene documents *)

\* sceneData.items throws a TypeError when sceneData is null
loadSceneThrows(sceneData) == sceneData = Null

\* loadScene (App.jsx 121-132)
loadScene(sceneData) ==
    /\ items' = Plain(OrElse(Member(sceneData, "items"), List(<<>>)))
    /\ library' = Plain(OrElse(Member(sceneData, "library"), List(<<>>)))
    /\ environment' =
          Plain(OrElse(Member(sceneData, "environment"), Str("studio")))
    /\ roomLightingPreset' =
          Plain(OrElse(Member(sceneData, "roomLightingPreset"),
                       Str("warm-evening")))
    /\ furnitureLightingPreset' =
          Plain(OrElse(Member(sceneData, "furnitureLightingPreset"),
                       Str("default")))
    /\ roomLightIntensity' =
          Plain(OrElse(Member(sceneData, "roomLightIntensity"), Num(10)))
    /\ furnitureLightIntensity' =
          Plain(OrElse(Member(sceneData, "furnitureLightIntensity"), Num(10)))
    /\ roomMaterialBrightness' =
          Plain(OrElse(Member(sceneData, "roomMaterialBrightness"), Num(10)))
    /\ selectedItem' = NullId
    /\ UNCHANGED transformMode

\* the sceneData of handleSave (App.jsx 413-424)
handleSaveSceneData ==
    Obj([library |-> List(library),
         items |-> List(items),
         environment |-> Str(environment),
         roomLightingPreset |-> Str(roomLightingPreset),
         furnitureLightingPreset |-> Str(furnitureLightingPreset),
         roomLightIntensity |-> Num(roomLightIntensity),
         furnitureLightIntensity |-> Num(furnitureLightIntensity),
         roomMaterialBrightness |-> Num(roomMaterialBrightness)])

\* a library entry and an item of the documents on disk
DocAsset == [name |-> "room.glb", url |-> DataURL("Um9vbQ")]
DocItem ==
    [id |-> "doc-item-1", name |-> "room.glb", url |-> DataURL("Um9vbQ"),
     position |-> <<2, 1, -3>>, rotation |-> <<0, 1, 0>>, scale |-> <<1, 1, 1>>]

\* a scene with every key
FullDocument ==
    Obj([library |-> List(<<DocAsset>>),
         items |-> List(<<DocItem>>),
         environment |-> Str("city"),
         roomLightingPreset |-> Str("sunset"),
         furnitureLightingPreset |-> Str("soft"),
         roomLightIntensity |-> Num(30),
         furnitureLightIntensity |-> Num(25),
         roomMaterialBrightness |-> Num(15)])

\* a scene whose lights are switched off: some keys missing, some falsy
DarkDocument ==
    Obj([EmptyObject EXCEPT !["items"] = List(<<DocItem>>),
                            !["environment"] = Str(""),
                            !["roomLightIntensity"] = Num(0),
                            !["roomMaterialBrightness"] = Num(5)])

\* the files the user can pick in the Load Scene dialog, besides a saved one
SceneFiles ==
    {[name |-> "scene.json", text |-> [raw |-> "{ \"items\": [ "]],
     [name |-> "scene.json", text |-> JSONstringify(Null)],
     [name |-> "scene.json", text |-> JSONstringify(Num(5))],
     [name |-> "scene.json", text |-> JSONstringify(List(<<>>))],
     [name |-> "scene.json", text |-> JSONstringify(Obj(EmptyObject))],
     [name |-> "scene.json", text |-> JSONstringify(DarkDocument)],
     [name |-> "scene.json", text |-> JSONstringify(FullDocument)],
     [name |-> "scene.txt", text |-> JSONstringify(FullDocument)]}

\* the scene.json the browser wrote for handleSave, when there is one
SavedFiles ==
    IF download = Null THEN {}
    ELSE {[name |-> "saved.json", text |-> download]}

\* at most this many scene files being read
MaxSceneReads == 1

\* what the selects and sliders of the model's user hand to the setters
EnvironmentChoices == {"studio", "city"}
RoomPresetChoices == {"warm-evening", "off"}
FurniturePresetChoices == {"default", "dramatic"}
RoomIntensityChoices == {0, 10, 30}
FurnitureIntensityChoices == {0, 10}
BrightnessChoices == {5, 10, 15, 20, 30}

\* onChange of the environment select (App.jsx 501)
ChangeEnvironment ==
    /\ ~CommitPending
    /\ \E env \in EnvironmentChoices : setEnvironment(env)
    /\ alert' = ""
    /\ last' = "setEnvironment"
    /\ exported' = Null
    /\ UNCHANGED <<glbReads, sceneReads, download, nextId, uuids, mounted,
                   loading,
                   material, lightVars>>
    /\ UNCHANGED <<mountedRooms, cache, effectBrightness>>
    /\ RenderFurnitureItems
    /\ Render

\* onChange of the room lighting select (App.jsx 516), disabled without
\* bounds (App.jsx 518)
ChangeRoomLightingPreset ==
    /\ ~CommitPending
    /\ Truthy(roomBounds)
    /\ \E preset \in RoomPresetChoices : setRoomLightingPreset(preset)
    /\ alert' = ""
    /\ last' = "setRoomLightingPreset"
    /\ exported' = Null
    /\ UNCHANGED <<glbReads, sceneReads, download, nextId, uuids, mounted,
                   loading,
                   material, lightVars>>
    /\ UNCHANGED <<mountedRooms, cache, effectBrightness>>
    /\ RenderFurnitureItems
    /\ Render

\* onChange of the furniture lighting select (App.jsx 535)
ChangeFurnitureLightingPreset ==
    /\ ~CommitPending
    /\ \E preset \in FurniturePresetChoices : setFurnitureLightingPreset(preset)
    /\ alert' = ""
    /\ last' = "setFurnitureLightingPreset"
    /\ exported' = Null
    /\ UNCHANGED <<glbReads, sceneReads, download, nextId, uuids, mounted,
                   loading,
                   material, lightVars>>
    /\ UNCHANGED <<mountedRooms, cache, effectBrightness>>
    /\ RenderFurnitureItems
    /\ Render

\* onChange of the room intensity slider (App.jsx 557), disabled without
\* bounds (App.jsx 558)
ChangeRoomLightIntensity ==
    /\ ~CommitPending
    /\ Truthy(roomBounds)
    /\ \E intensity \in RoomIntensityChoices : setRoomLightIntensity(intensity)
    /\ alert' = ""
    /\ last' = "setRoomLightIntensity"
    /\ exported' = Null
    /\ UNCHANGED <<glbReads, sceneReads, download, nextId, uuids, mounted,
                   loading,
                   material, lightVars>>
    /\ UNCHANGED <<mountedRooms, cache, effectBrightness>>
    /\ RenderFurnitureItems
    /\ Render

\* onChange of the furniture intensity slider (App.jsx 575)
ChangeFurnitureLightIntensity ==
    /\ ~CommitPending
    /\ \E intensity \in FurnitureIntensityChoices :
          setFurnitureLightIntensity(intensity)
    /\ alert' = ""
    /\ last' = "setFurnitureLightIntensity"
    /\ exported' = Null
    /\ UNCHANGED <<glbReads, sceneReads, download, nextId, uuids, mounted,
                   loading,
                   material, lightVars>>
    /\ UNCHANGED <<mountedRooms, cache, effectBrightness>>
    /\ RenderFurnitureItems
    /\ Render

\* onChange of the room brightness slider (App.jsx 592), disabled without
\* bounds (App.jsx 593)
ChangeRoomMaterialBrightness ==
    /\ ~CommitPending
    /\ Truthy(roomBounds)
    /\ \E brightness \in BrightnessChoices :
          setRoomMaterialBrightness(brightness)
    /\ UNCHANGED <<roomBounds, mounted, loading, material>>
    /\ alert' = ""
    /\ last' = "setRoomMaterialBrightness"
    /\ exported' = Null
    /\ UNCHANGED <<glbReads, sceneReads, download, nextId, uuids, lightVars>>
    /\ UNCHANGED <<mountedRooms, cache, effectBrightness>>
    /\ RenderFurnitureItems
    /\ Render

\* handleSave (App.jsx 412-433)
HandleSave ==
    /\ ~CommitPending
    /\ download' = JSONstringify(handleSaveSceneData)
    /\ alert' = ""
    /\ last' = "handleSave"
    /\ exported' = Null
    /\ UNCHANGED <<storeVars, glbReads, sceneReads, nextId, uuids, mounted,
                   loading,
                   material, lightVars>>
    /\ UNCHANGED <<mountedRooms, cache, effectBrightness>>
    /\ RenderFurnitureItems
    /\ Render

\* handleSceneLoad (App.jsx 395-410): a file of another kind is passed over
HandleSceneLoad ==
    /\ ~CommitPending
    /\ \E file \in SceneFiles \cup SavedFiles \cup {NoFile} :
          IF file # NoFile /\ EndsWithJson(file.name)
          THEN /\ Len(sceneReads) < MaxSceneReads
               /\ sceneReads' = Append(sceneReads, file.text)
          ELSE UNCHANGED sceneReads
    /\ alert' = ""
    /\ last' = "handleSceneLoad"
    /\ exported' = Null
    /\ UNCHANGED <<storeVars, glbReads, download, nextId, uuids, mounted,
                   loading,
                   material, lightVars>>
    /\ UNCHANGED <<mountedRooms, cache, effectBrightness>>
    /\ RenderFurnitureItems
    /\ Render

\* reader.onload of handleSceneLoad (App.jsx 399-406)
SceneReaderOnload ==
    /\ \E i \in DOMAIN sceneReads :
          /\ IF /\ JSONparses(sceneReads[i])
                /\ ~loadSceneThrows(JSONparse(sceneReads[i]))
             THEN /\ loadScene(JSONparse(sceneReads[i]))
                  /\ UNCHANGED <<roomBounds, mounted, loading, material>>
                  /\ alert' = ""
             ELSE /\ UNCHANGED <<storeVars, mounted, loading, material>>
                  /\ alert' = "Error loading scene file. It may be corrupted."
          /\ sceneReads' = RemoveAt(sceneReads, i)
    /\ last' = "loadScene"
    /\ exported' = Null
    /\ UNCHANGED <<glbReads, download, nextId, uuids, lightVars>>
    /\ UNCHANGED <<mountedRooms, cache, effectBrightness>>
    /\ RenderFurnitureItems
    /\ Render

\* Saving and loading, with the two intensity sliders; the other knobs move
\* only by a load here.
DocNext ==
    \/ ChangeRoomLightIntensity
    \/ ChangeFurnitureLightIntensity
    \/ ClickSelect
    \/ HandleSave
    \/ HandleSceneLoad
    \/ SceneReaderOnload
    \/ FurnitureModelEffect
    \/ GltfLoadedForRemovedItem
    \/ Commit

SpecDoc == Init /\ [][DocNext]_vars

\* handleSceneLoad (App.jsx 395-410) with a scene.json that handleSave wrote
HandleSavedSceneLoad ==
    /\ ~CommitPending
    /\ \E file \in SavedFiles :
          /\ EndsWithJson(file.name)
          /\ Len(sceneReads) < MaxSceneReads
          /\ sceneReads' = Append(sceneReads, file.text)
    /\ alert' = ""
    /\ last' = "handleSceneLoad"
    /\ exported' = Null
    /\ UNCHANGED <<storeVars, glbReads, download, nextId, uuids, mounted,
                   loading,
                   material, lightVars>>
    /\ UNCHANGED <<mountedRooms, cache, effectBrightness>>
    /\ RenderFurnitureItems
    /\ Render

\* The store once a Room.glb, with any of the room materials, has been
\* imported, added to the scene and loaded
RoomAsset == [name |-> "Room.glb", url |-> DataURL("Um9vbQ")]

KnobInit ==
    /\ items = <<Spread(RoomAsset, [id |-> FreshUuids[1],
                                    position |-> <<0, 1, 0>>,
                                    rotation |-> <<0, 0, 0>>,
                                    scale |-> <<1, 1, 1>>])>>
    /\ library = <<RoomAsset>>
    /\ environment = "studio"
    /\ roomLightingPreset = "warm-evening"
    /\ furnitureLightingPreset = "default"
    /\ roomBounds = calculateRoomBounds(RoomBox)
    /\ roomLightIntensity = 10
    /\ furnitureLightIntensity = 10
    /\ roomMaterialBrightness = 10
    /\ selectedItem = NullId
    /\ transformMode = "translate"
    /\ glbReads = <<>>
    /\ sceneReads = <<>>
    /\ download = Null
    /\ alert = ""
    /\ exported = Null
    /\ nextId = 1
    /\ uuids = FreshUuids
    /\ loading = {}
    /\ mounted = {FreshUuids[1]}
    /\ mountedRooms = {FreshUuids[1]}
    /\ cache = {RoomAsset.url}
    /\ fetching = {}
    /\ effectBrightness = 10
    /\ material \in {applyBrightness(m, 10) : m \in RoomMaterials}
    /\ last = "setRoomBounds"
    /\ RenderInit
    /\ LightInit

\* The selects, sliders and mode buttons alone, with a room in the scene.
KnobNext ==
    \/ ChangeEnvironment
    \/ ChangeRoomLightingPreset
    \/ ChangeFurnitureLightingPreset
    \/ ChangeRoomLightIntensity
    \/ ChangeFurnitureLightIntensity
    \/ ChangeRoomMaterialBrightness
    \/ ChangeTransformMode
    \/ Commit

SpecKnobs == KnobInit /\ [][KnobNext]_vars

-----------------------------------------------------------------------------
(* The store's item operations called with any id and any part of a        *)
(* transform, from scenes of chairs as adding, dragging and deleting       *)
(* leave them.                                                             *)

ChairAsset == [name |-> "chair.glb", url |-> DataURL("Q2hhaXI")]

\* the transform handleAddItemToScene gives (App.jsx 324-326)
DefaultTransform ==
    [position |-> <<0, 1, 0>>, rotation |-> <<0, 0, 0>>, scale |-> <<1, 1, 1>>]

\* the ids uuidv4 has returned, whether their items are in the scene or not
StoreIds == {FreshUuids[1], FreshUuids[2]}

\* a chair as added, or as a drag left it
Chairs(id) ==
    {Spread(ChairAsset, Spread([id |-> id], t)) :
        t \in {DefaultTransform} \cup DragTransforms}

\* newProps of updateItem: a transform or a part of one
ItemProps ==
    DragTransforms
    \cup {[position |-> t.position] : t \in DragTransforms}
    \cup {[scale |-> t.scale] : t \in DragTransforms}

StoreCallInit ==
    /\ items \in {<<>>} \cup {<<a>> : a \in Chairs(FreshUuids[1])}
                      \cup {<<b>> : b \in Chairs(FreshUuids[2])}
                      \cup {<<a, b>> : a \in Chairs(FreshUuids[1]),
                                       b \in Chairs(FreshUuids[2])}
    /\ library = <<ChairAsset>>
    /\ environment = "studio"
    /\ roomLightingPreset = "warm-evening"
    /\ furnitureLightingPreset = "default"
    /\ roomBounds = Null
    /\ roomLightIntensity = 10
    /\ furnitureLightIntensity = 10
    /\ roomMaterialBrightness = 10
    /\ selectedItem \in {items[i].id : i \in DOMAIN items} \cup {NullId}
    /\ transformMode = "translate"
    /\ glbReads = <<>>
    /\ sceneReads = <<>>
    /\ download = Null
    /\ alert = ""
    /\ exported = Null
    /\ nextId = 2
    /\ uuids = FreshUuids
    /\ loading = {}
    /\ mounted = {items[i].id : i \in DOMAIN items}
    /\ mountedRooms = {}
    /\ cache = {ChairAsset.url}
    /\ fetching = {}
    /\ effectBrightness = 10
    /\ ModelInit
    /\ last = "setSelectedItem"
    /\ RenderInit
    /\ LightInit

\* updateItem (App.jsx 114-116) with any id and props
UpdateItemCall ==
    /\ \E id \in StoreIds, newProps \in ItemProps : updateItem(id, newProps)
    /\ alert' = ""
    /\ last' = "updateItem"
    /\ exported' = Null
    /\ UNCHANGED <<glbReads, sceneReads, download, nextId, uuids, mounted,
                   loading,
                   material, lightVars>>
    /\ UNCHANGED <<mountedRooms, cache, effectBrightness>>
    /\ RenderFurnitureItems
    /\ Render

\* deleteItem (App.jsx 117-120) with any id
DeleteItemCall ==
    /\ \E id \in StoreIds : deleteItem(id)
    /\ UNCHANGED <<roomBounds, mounted, loading, material>>
    /\ alert' = ""
    /\ last' = "deleteItem"
    /\ exported' = Null
    /\ UNCHANGED <<glbReads, sceneReads, download, nextId, uuids, lightVars>>
    /\ UNCHANGED <<mountedRooms, cache, effectBrightness>>
    /\ RenderFurnitureItems
    /\ Render

StoreNext ==
    \/ UpdateItemCall
    \/ DeleteItemCall
    \/ Commit

SpecStore == StoreCallInit /\ [][StoreNext]_vars

-----------------------------------------------------------------------------
(* The library and the items once Room.glb and chair.glb have been         *)
(* imported: adding, deleting, removing assets, saving, and loading the    *)
(* saved scenes.                                                           *)

SceneInit ==
    /\ items = <<>>
    /\ library = <<RoomAsset, ChairAsset>>
    /\ environment = "studio"
    /\ roomLightingPreset = "warm-evening"
    /\ furnitureLightingPreset = "default"
    /\ roomBounds = Null
    /\ roomLightIntensity = 10
    /\ furnitureLightIntensity = 10
    /\ roomMaterialBrightness = 10
    /\ selectedItem = NullId
    /\ transformMode = "translate"
    /\ glbReads = <<>>
    /\ sceneReads = <<>>
    /\ download = Null
    /\ alert = ""
    /\ exported = Null
    /\ nextId = 0
    /\ uuids = FreshUuids
    /\ loading = {}
    /\ mounted = {}
    /\ mountedRooms = {}
    /\ cache = {}
    /\ fetching = {}
    /\ effectBrightness = 10
    /\ ModelInit
    /\ last = "addLibraryItem"
    /\ RenderInit
    /\ LightInit

SceneNext ==
    \/ RemoveLibraryItemClick
    \/ HandleAddItemToScene
    \/ HandleDelete
    \/ DeleteItemCall
    \/ HandleDragEndAfterRemoval
    \/ ClickSelect
    \/ FurnitureModelEffect
    \/ GltfLoadedForRemovedItem
    \/ HandleSave
    \/ HandleSavedSceneLoad
    \/ SceneReaderOnload
    \/ Commit

SpecScene == SceneInit /\ [][SceneNext]_vars

-----------------------------------------------------------------------------
(* The room lights while the room comes and goes: items are added, deleted *)
(* and removed with their asset, the room lighting select and the room     *)
(* intensity slider are moved, and scene files are loaded.                 *)

RigNext ==
    \/ RemoveLibraryItemClick
    \/ HandleAddItemToScene
    \/ HandleDelete
    \/ ClickSelect
    \/ ChangeRoomLightingPreset
    \/ ChangeRoomLightIntensity
    \/ HandleSceneLoad
    \/ SceneReaderOnload
    \/ FurnitureModelEffect
    \/ GltfLoadedForRemovedItem
    \/ Commit

SpecRig == SceneInit /\ [][RigNext]_vars

-----------------------------------------------------------------------------
(* The store's items under every run of uuidv4's values, the runs in which *)
(* a call repeats another's among them, once chair.glb has been imported:  *)
(* adding, the store's updateItem and deleteItem with any id, removing the *)
(* asset, saving, and loading the saved scenes.  No model arrives: the     *)
(* items stay behind their fallbacks, and the canvas, which is keyed by    *)
(* the ids, is not what these runs are read for.                           *)

\* updateItem (App.jsx 114-116) with any id and the transform of a drag, as
\* handleDragEnd passes it (App.jsx 223-227)
UpdateTransformCall ==
    /\ \E id \in StoreIds, newProps \in DragTransforms :
          updateItem(id, newProps)
    /\ alert' = ""
    /\ last' = "updateItem"
    /\ exported' = Null
    /\ UNCHANGED <<glbReads, sceneReads, download, nextId, uuids, mounted,
                   loading, material, lightVars>>
    /\ UNCHANGED <<mountedRooms, cache, effectBrightness>>
    /\ RenderFurnitureItems
    /\ Render

IdsInit ==
    /\ items = <<>>
    /\ library = <<ChairAsset>>
    /\ environment = "studio"
    /\ roomLightingPreset = "warm-evening"
    /\ furnitureLightingPreset = "default"
    /\ roomBounds = Null
    /\ roomLightIntensity = 10
    /\ furnitureLightIntensity = 10
    /\ roomMaterialBrightness = 10
    /\ selectedItem = NullId
    /\ transformMode = "translate"
    /\ glbReads = <<>>
    /\ sceneReads = <<>>
    /\ download = Null
    /\ alert = ""
    /\ exported = Null
    /\ nextId = 0
    /\ uuids \in [1..MaxIds -> Uuids]
    /\ loading = {}
    /\ mounted = {}
    /\ mountedRooms = {}
    /\ cache = {}
    /\ fetching = {}
    /\ effectBrightness = 10
    /\ ModelInit
    /\ last = "addLibraryItem"
    /\ RenderInit
    /\ LightInit

IdsNext ==
    \/ RemoveLibraryItemClick
    \/ HandleAddItemToScene
    \/ UpdateTransformCall
    \/ DeleteItemCall
    \/ HandleSave
    \/ HandleSavedSceneLoad
    \/ SceneReaderOnload
    \/ Commit

SpecIds == IdsInit /\ [][IdsNext]_vars

-----------------------------------------------------------------------------
(* The library and the items from the moment Room.glb and chair.glb have   *)
(* been picked and are being read: the reads end in either order and       *)
(* addLibraryItem takes each asset in, items are added from the entries    *)
(* the library has, the store's updateItem and deleteItem are called with  *)
(* any id, assets are removed, and scenes are saved and the saved ones     *)
(* loaded.                                                                 *)

LibraryInit ==
    /\ StoreInit
    /\ glbReads = <<[name |-> "Room.glb", content |-> "Um9vbQ"],
                    [name |-> "chair.glb", content |-> "Q2hhaXI"]>>
    /\ sceneReads = <<>>
    /\ download = Null
    /\ alert = ""
    /\ exported = Null
    /\ nextId = 0
    /\ uuids = FreshUuids
    /\ loading = {}
    /\ mounted = {}
    /\ mountedRooms = {}
    /\ cache = {}
    /\ fetching = {}
    /\ effectBrightness = 10
    /\ ModelInit
    /\ last = "handleFileChange"
    /\ RenderInit
    /\ LightInit

LibraryNext ==
    \/ GlbReaderOnload
    \/ RemoveLibraryItemClick
    \/ HandleAddItemToScene
    \/ UpdateTransformCall
    \/ DeleteItemCall
    \/ HandleSave
    \/ HandleSavedSceneLoad
    \/ SceneReaderOnload
    \/ Commit

SpecLibrary == LibraryInit /\ [][LibraryNext]_vars

-----------------------------------------------------------------------------
(* The lighting resolvers as pure functions: the inputs are drawn from     *)
(* bounded sets and each action applies one resolver to them.              *)

\* how far the X grid of the drawn bounds reaches, in steps of 5.0
MaxCoord == 1

GridX == {k * 500 : k \in -MaxCoord..MaxCoord}

\* (min, center, max) on the X axis: any center, min <= max
AxisX == {t \in GridX \X GridX \X GridX : t[1] <= t[3]}

\* (min, center, max) on the Y axis: a room standing on the floor, a room
\* below the origin, an empty volume, a room high above the floor, a low room
AxisY == {<<0, 200, 400>>, <<-400, -250, -100>>, <<0, 0, 0>>,
          <<350, 370, 400>>, <<0, 20, 50>>}

\* (min, center, max) on the Z axis
AxisZ == {<<-500, 0, 500>>, <<0, 100, 300>>, <<0, 0, 0>>, <<200, 200, 700>>}

Bounds(x, y, z) ==
    [minX |-> x[1], maxX |-> x[3], minY |-> y[1], maxY |-> y[3],
     minZ |-> z[1], maxZ |-> z[3],
     centerX |-> x[2], centerY |-> y[2], centerZ |-> z[2]]

BoundsInputs == {Bounds(x, y, z) : x \in AxisX, y \in AxisY, z \in AxisZ}

RoomPresetInputs ==
    KnownRoomPresets \cup {"off", "", "Warm-Evening", "constructor"}

FurniturePresetInputs ==
    KnownFurniturePresets \cup {"", "toString"}

LightProbeInit ==
    /\ items = <<>>
    /\ library = <<>>
    /\ environment = "studio"
    /\ roomLightingPreset \in RoomPresetInputs
    /\ furnitureLightingPreset \in FurniturePresetInputs
    /\ roomBounds \in BoundsInputs \cup {Null}
    /\ roomLightIntensity = 10
    /\ furnitureLightIntensity = 10
    /\ roomMaterialBrightness = 10
    /\ selectedItem = NullId
    /\ transformMode = "translate"
    /\ AppInit
    /\ ModelInit
    /\ RenderInit
    /\ LightInit

ResolveRoom ==
    /\ roomConfig' = getRoomLightingConfig(roomLightingPreset, roomBounds)
    /\ UNCHANGED <<storeVars, appVars, furnitureConfig>>

ResolveFurniture ==
    /\ furnitureConfig' = getFurnitureLightingConfig(furnitureLightingPreset)
    /\ UNCHANGED <<storeVars, appVars, roomConfig>>

LightNext == ResolveRoom \/ ResolveFurniture

SpecLight == LightProbeInit /\ [][LightNext]_vars

-----------------------------------------------------------------------------
(* Claims about the lighting resolvers, under SpecLight *)

RoomResolved == roomConfig # Unresolved
FurnitureResolved == furnitureConfig # Unresolved
KnownRoomCase ==
    RoomResolved /\ roomLightingPreset \in KnownRoomPresets /\ roomBounds # Null

\* C6: getRoomLightingConfig returns null for 'off', for absent bounds and for
\* every preset string that is not one of the five known presets, and a rig
\* for the five known presets with bounds present.
C6_RoomResolverNullCases ==
    RoomResolved =>
      /\ (\/ roomLightingPreset = "off"
          \/ roomBounds = Null
          \/ roomLightingPreset \notin KnownRoomPresets) => roomConfig = Null
      /\ (roomLightingPreset \in KnownRoomPresets /\ roomBounds # Null)
            => roomConfig # Null

\* C7: getFurnitureLightingConfig returns a rig with an ambient and a
\* directional term for every preset string, and the 'default' rig for every
\* string that is not default, bright, soft or dramatic.
C7_FurnitureResolverTotal ==
    FurnitureResolved =>
      /\ {"ambientLight", "directionalLight"} \subseteq DOMAIN furnitureConfig
      /\ furnitureLightingPreset \notin KnownFurniturePresets
            => furnitureConfig = FurnitureEntry(10, "#fff1e0", <<5, 10, 7>>, 180)

\* the bounds of the scenario: a 10 x 4 x 10 room centered on the origin
ScenarioBounds ==
    [minX |-> -500, maxX |-> 500, minY |-> 0, maxY |-> 400,
     minZ |-> -500, maxZ |-> 500, centerX |-> 0, centerY |-> 200, centerZ |-> 0]

\* C8: for a known preset, every point light is a corner light at
\* (centerX + (eX - centerX)*0.8, maxY*0.9, centerZ + (eZ - centerZ)*0.8) for
\* extremes eX, eZ, or a center light at (centerX, centerZ) whose height is
\* maxY*0.9, or maxY*0.9 - 0.5 for cozy-night; the scenario bounds with
\* warm-evening give a corner light at (4, 3.6, 4) and a center light at
\* (0, 3.6, 0) with falloff distance 9.6.
C8_PointLightPlacement ==
    KnownRoomCase =>
      LET b == roomBounds
          top == (b.maxY * 9) \div 10
          AtCorner(l) ==
              /\ \E eX \in {b.minX, b.maxX} :
                    l.position[1] = b.centerX + ((eX - b.centerX) * 8) \div 10
              /\ \E eZ \in {b.minZ, b.maxZ} :
                    l.position[3] = b.centerZ + ((eZ - b.centerZ) * 8) \div 10
              /\ l.position[2] = top
          AtCenter(l) ==
              /\ l.position[1] = b.centerX
              /\ l.position[3] = b.centerZ
              /\ l.position[2] = IF roomLightingPreset = "cozy-night"
                                 THEN top - 50 ELSE top
          lights == roomConfig.pointLights
      IN  /\ \A i \in DOMAIN lights : AtCorner(lights[i]) \/ AtCenter(lights[i])
          /\ (b = ScenarioBounds /\ roomLightingPreset = "warm-evening") =>
                /\ top = 360
                /\ \E i \in DOMAIN lights : lights[i].position = <<400, 360, 400>>
                /\ \E i \in DOMAIN lights :
                      /\ lights[i].position = <<0, 360, 0>>
                      /\ lights[i].distance = 960

\* C8 happens: the scenario has been resolved, and so has a cozy-night rig
C8_Witness ==
    /\ KnownRoomCase
    /\ roomBounds = ScenarioBounds
    /\ roomLightingPreset = "warm-evening"
    /\ Len(roomConfig.pointLights) = 5
    /\ roomConfig.pointLights[5].distance = 960

\* C9: for bounds with min <= center <= max on each axis, every point light
\* of a known preset lies inside [minX,maxX] x [minY,maxY] x [minZ,maxZ].
C9_LightsInsideRoom ==
    (/\ KnownRoomCase
     /\ roomBounds.minX <= roomBounds.centerX
     /\ roomBounds.centerX <= roomBounds.maxX
     /\ roomBounds.minY <= roomBounds.centerY
     /\ roomBounds.centerY <= roomBounds.maxY
     /\ roomBounds.minZ <= roomBounds.centerZ
     /\ roomBounds.centerZ <= roomBounds.maxZ) =>
      \A i \in DOMAIN roomConfig.pointLights :
         LET pos == roomConfig.pointLights[i].position
         IN  /\ roomBounds.minX <= pos[1] /\ pos[1] <= roomBounds.maxX
             /\ roomBounds.minY <= pos[2] /\ pos[2] <= roomBounds.maxY
             /\ roomBounds.minZ <= pos[3] /\ pos[3] <= roomBounds.maxZ

\* C10 as claimed: the hemisphere term of a known preset's rig sits at the
\* room's center at ceiling height, (centerX, maxY*0.9, centerZ).
C10_HemisphereAtRoomCenter ==
    KnownRoomCase =>
      roomConfig.hemisphereLight.position =
         <<roomBounds.centerX, (roomBounds.maxY * 9) \div 10, roomBounds.centerZ>>

\* C10 as amended: the hemisphere term of a known preset's rig sits on the
\* world's Y axis at ceiling height, (0, maxY*0.9, 0), whatever the room's
\* center is.
C10_HemisphereOnYAxis ==
    KnownRoomCase =>
      roomConfig.hemisphereLight.position =
         <<0, (roomBounds.maxY * 9) \div 10, 0>>

\* C10 happens: a rig resolved for a room whose center is off the Y axis
C10_Witness ==
    /\ KnownRoomCase
    /\ roomBounds.centerX # 0
    /\ roomBounds.centerZ # 0
    /\ roomConfig.hemisphereLight.position[1] = 0

-----------------------------------------------------------------------------
(* Claims about the scene editor, under Spec *)

\* C2: after removeLibraryItem of a library asset no item referencing the
\* asset remains, and if the selected item was one of the removed items the
\* selection is none afterwards.
C2_RemoveLibraryCascade ==
    [][\A i \in DOMAIN library :
          (last' = "removeLibraryItem" /\ removeLibraryItem(library[i].url)) =>
             /\ \A j \in DOMAIN items' : items'[j].url # library[i].url
             /\ (\E j \in DOMAIN items :
                    /\ items[j].id = selectedItem
                    /\ items[j].url = library[i].url)
                   => selectedItem' = NullId]_vars

\* C5: no two library entries share a name, in any state that imports
\* (started, completed, in any order) and the other operations reach.
C5_LibraryNamesUnique ==
    \A i, j \in DOMAIN library :
       i # j => library[i].name # library[j].name

-----------------------------------------------------------------------------
(* Claims about saving and loading, under SpecDoc *)

\* the fields a scene document carries, as the store holds them
Persisted ==
    [library |-> List(library),
     items |-> List(items),
     environment |-> Str(environment),
     roomLightingPreset |-> Str(roomLightingPreset),
     furnitureLightingPreset |-> Str(furnitureLightingPreset),
     roomLightIntensity |-> Num(roomLightIntensity),
     furnitureLightIntensity |-> Num(furnitureLightIntensity),
     roomMaterialBrightness |-> Num(roomMaterialBrightness)]

\* the defaults of a load
DocDefaults ==
    [library |-> List(<<>>),
     items |-> List(<<>>),
     environment |-> Str("studio"),
     roomLightingPreset |-> Str("warm-evening"),
     furnitureLightingPreset |-> Str("default"),
     roomLightIntensity |-> Num(10),
     furnitureLightIntensity |-> Num(10),
     roomMaterialBrightness |-> Num(10)]

\* this step is reader.onload of the i-th scene read
LoadStepOf(i) ==
    /\ i \in DOMAIN sceneReads
    /\ last' = "loadScene"
    /\ sceneReads' = RemoveAt(sceneReads, i)

\* the knobs lie in the domains of their sliders
KnobsInDomain ==
    /\ roomLightIntensity \in 0..30
    /\ furnitureLightIntensity \in 0..30
    /\ roomMaterialBrightness \in 5..30

\* C1: loading the text handleSave writes for a store whose knobs lie in
\* their domains leaves library, items, environment, both presets, both
\* intensities and the brightness as they were before the save.
C1_SaveLoadRoundTrip ==
    [][\A i \in DOMAIN sceneReads :
          (/\ LoadStepOf(i)
           /\ KnobsInDomain
           /\ sceneReads[i] = JSONstringify(Obj(Persisted)))
             => Persisted' = Persisted]_vars

\* C3: after loadScene of a document, each persisted field the document
\* lacks holds its default and each field the document holds has the
\* document's value.
C3_LoadIsFullReplace ==
    [][\A i \in DOMAIN sceneReads :
          (/\ LoadStepOf(i)
           /\ JSONparses(sceneReads[i])
           /\ "obj" \in DOMAIN JSONparse(sceneReads[i]))
             => \A k \in DocKeys :
                   Persisted'[k] =
                      IF Member(JSONparse(sceneReads[i]), k) = Undefined
                      THEN DocDefaults[k]
                      ELSE Member(JSONparse(sceneReads[i]), k)]_vars

\* a parsed value with the shape of a scene document: an object whose items
\* and library, when it has them, are arrays
HasDocumentShape(v) ==
    /\ "obj" \in DOMAIN v
    /\ \A k \in {"items", "library"} :
          Member(v, k) = Undefined \/ "list" \in DOMAIN Member(v, k)

\* C4: when the text handed to the load does not parse, or parses to a value
\* without the shape of a document, an error is shown and every field of the
\* store is what it was before.
C4_MalformedLoadKeepsState ==
    [][\A i \in DOMAIN sceneReads :
          (/\ LoadStepOf(i)
           /\ \/ ~JSONparses(sceneReads[i])
              \/ ~HasDocumentShape(JSONparse(sceneReads[i])))
             => /\ alert' # ""
                /\ storeVars' = storeVars]_vars

-----------------------------------------------------------------------------
(* Claims about the info export, under Spec *)

\* the fields of an exported item
InfoFields == {"id", "name", "position", "rotation", "scale"}

\* C11: the document handleExportInfo writes has no library field and one
\* entry per scene item, in the items' order, each with exactly the fields
\* id, name, position, rotation and scale of its item, and so without the url.
C11_InfoCarriesNoPayload ==
    exported # Null =>
      LET doc == JSONparse(exported)
          out == Member(doc, "items")
      IN  /\ Member(doc, "library") = Undefined
          /\ "list" \in DOMAIN out
          /\ Len(out.list) = Len(items)
          /\ \A i \in DOMAIN items :
                /\ DOMAIN out.list[i] = InfoFields
                /\ \A k \in InfoFields : out.list[i][k] = items[i][k]

\* C11 happens: an export of a scene with two items of different assets,
\* each holding its url, and a library that is not empty
C11_Witness ==
    /\ exported # Null
    /\ library # <<>>
    /\ Len(items) = 2
    /\ "url" \in DOMAIN items[1]
    /\ items[1].url # items[2].url

-----------------------------------------------------------------------------
(* Claims about the brightness adjustment, under SpecKnobs *)

\* the room material as its file holds it
Baseline == CHOOSE m \in RoomMaterials : m.name = material.name

\* C12: after any sequence of brightness values the room material is what
\* one adjustment of the untouched material to the value last applied gives,
\* and the captured baseline is still the untouched material's.
C12_NoBrightnessDrift ==
    /\ material = applyBrightness(Baseline, effectBrightness)
    /\ material.userData.originalColor = Baseline.color
    /\ material.userData.originalEmissiveIntensity =
          OrElse(Baseline.emissiveIntensity, Num(0))

\* C12 happens: the material, adjusted to 1.0 when the room was mounted, has
\* been adjusted again, to 2.0, and its color is no longer the baseline's
C12_Witness ==
    /\ last = "commit"
    /\ effectBrightness = 20
    /\ roomMaterialBrightness = 20
    /\ Truthy(material.userData.originalColor)
    /\ material.color # material.userData.originalColor

\* C13: each color channel of the material adjusted to a brightness is
\* min(baseline channel * brightness, 1), and the emissive intensity of a
\* material with an emissive term is the baseline's plus
\* max(brightness - 1, 0) * 0.5, so the baseline's for a brightness of at
\* most 1.
C13_BrightnessFormula ==
    /\ \A c \in {"r", "g", "b"} :
          material.color[c] =
             Min((Baseline.color[c] * effectBrightness) \div 10, 1000)
    /\ Truthy(material.emissive) =>
          material.emissiveIntensity.num =
             Baseline.emissiveIntensity.num
                + Max(effectBrightness - 10, 0) * 5

-----------------------------------------------------------------------------
(* Claims about loads in flight, under SpecScene *)

\* the urls whose fetch ends in a step
Arriving == fetching \ fetching'

\* C14: with no commit due, the canvas holds a model or a fallback only for
\* items that are in the scene, and there are bounds only while an item of
\* the scene has its model mounted as the room.  A step in which the fetch of a model
\* ends leaves the items, the library and the selection as they are, mounts
\* only models of items that are in the scene, and changes the bounds only
\* when a room item of the scene has the url that arrived: what arrives for
\* items that were deleted, removed with their asset or dropped by a load is
\* discarded.  A drag-end leaves every item in its place with its id, also
\* when it comes for an id that no item has; and no step but an addItem or a
\* load brings an id into the scene.
C14_NoResurrection ==
    /\ [](~CommitPending =>
             /\ mounted \cup loading \subseteq IdsOf(items)
             /\ roomBounds # Null => mountedRooms \cap IdsOf(items) # {})
    /\ [][/\ Arriving # {} =>
                /\ items' = items
                /\ library' = library
                /\ selectedItem' = selectedItem
                /\ mounted' \ mounted \subseteq IdsOf(items)
                /\ roomBounds' # roomBounds =>
                      \E i \in DOMAIN items :
                         isRoom(items[i].name) /\ items[i].url \in Arriving
          /\ last' = "updateItem" =>
                /\ Len(items') = Len(items)
                /\ \A i \in DOMAIN items : items'[i].id = items[i].id
          /\ last' \notin {"addItem", "loadScene"} =>
                IdsOf(items') \subseteq IdsOf(items)]_vars

\* C14 happens: the model of the room has arrived after the one room item,
\* which waited for it, left the scene while the library kept the room
\* asset (it was deleted, or a load of the saved scene dropped it); the
\* scene has the chair alone, no room effect has ever run and there are no
\* bounds
C14_Witness ==
    /\ last = "useGLTF"
    /\ download # Null
    /\ RoomAsset \in Range(library)
    /\ RoomAsset.url \in cache
    /\ Len(items) = 1
    /\ RoomIds(items) = {}
    /\ nextId = 2
    /\ mountedRooms = {}
    /\ material.userData = NoUserData
    /\ roomBounds = Null

-----------------------------------------------------------------------------
(* Claims about the rendered room lights, under SpecRig *)

\* C15: the room lights in the canvas are those of the resolver's rig for
\* the store's present preset and present bounds, each light with the
\* resolver's fields and its intensity times the store's present room
\* intensity; there are none when the bounds are absent, when the preset is
\* 'off', and when the resolver has no rig for the preset.
C15_NoStaleRig ==
    IF roomBounds = Null \/ roomLightingPreset = "off" THEN rig = Null
    ELSE LET config == getRoomLightingConfig(roomLightingPreset, roomBounds)
         IN  IF config = Null THEN rig = Null
             ELSE /\ rig # Null
                  /\ rig.ambientLight =
                        [config.ambientLight EXCEPT
                           !.intensity = MulTenths(@, roomLightIntensity)]
                  /\ rig.hemisphereLight =
                        [config.hemisphereLight EXCEPT
                           !.intensity = MulTenths(@, roomLightIntensity)]
                  /\ DOMAIN rig.pointLights = DOMAIN config.pointLights
                  /\ \A i \in DOMAIN config.pointLights :
                        rig.pointLights[i] =
                           [config.pointLights[i] EXCEPT
                              !.intensity = MulTenths(@, roomLightIntensity)]

\* C15 happens: the room intensity slider has just been set, with a room
\* mounted whose effect set the bounds and the sunset preset chosen; the
\* intensity is not the initial one, and the ambient light is the sunset
\* rig's for these bounds at this intensity
C15_Witness ==
    /\ last = "setRoomLightIntensity"
    /\ mountedRooms # {}
    /\ roomBounds = calculateRoomBounds(RoomBox)
    /\ roomLightingPreset = "sunset"
    /\ roomLightIntensity # 10
    /\ rig # Null
    /\ rig.ambientLight.color = Sunset(roomBounds).ambientLight.color
    /\ rig.ambientLight.intensity =
          MulTenths(Sunset(roomBounds).ambientLight.intensity,
                    roomLightIntensity)

-----------------------------------------------------------------------------
(* Claims about the room's bounds, under SpecScene, and about the library, *)
(* under Spec                                                              *)

\* C16: when no room model has its effect active, the bounds are absent; in
\* particular the bounds are absent in every state with no commit due whose
\* scene has no room item, whether the room was deleted, removed with its
\* asset or dropped by the load of a saved scene.
C16_BoundsClearedWithRoom ==
    /\ mountedRooms = {} => roomBounds = Null
    /\ (~CommitPending /\ RoomIds(items) = {}) => roomBounds = Null

\* C16 happens: the commit after the room left the scene has run the
\* cleanup of the room's effect, which had set the bounds (the effect leaves
\* its captures on the material), and the scene has no room item
C16_Witness ==
    /\ last = "commit"
    /\ material.userData # NoUserData
    /\ RoomIds(items) = {}
    /\ mountedRooms = {}
    /\ roomBounds = Null


\* C17: removeLibraryItem of one library asset leaves every library entry
\* with another name in the library, and leaves every item made from such an
\* entry in the scene with its fields unchanged.
C17_RemovesOnlyTarget ==
    [][\A i \in DOMAIN library :
          (last' = "removeLibraryItem" /\ removeLibraryItem(library[i].url)) =>
             /\ \A j \in DOMAIN library :
                   library[j].name # library[i].name =>
                      library[j] \in Range(library')
             /\ \A k \in DOMAIN items :
                   items[k].name # library[i].name =>
                      items[k] \in Range(items')]_vars

-----------------------------------------------------------------------------
(* Claims about the store's item operations, under SpecStore *)

\* C18: updateItem(id, newProps) gives the item with that id every key of
\* newProps and leaves its other fields as they were; the other items, the
\* order, the library, the selection and the knobs are unchanged; when no
\* item has the id the whole store is unchanged; a later update of a key
\* replaces the value an earlier one stored.
C18_UpdateItemMerges ==
    [][\A id \in StoreIds, newProps \in ItemProps :
          (last' = "updateItem" /\ updateItem(id, newProps)) =>
             /\ Len(items') = Len(items)
             /\ \A i \in DOMAIN items :
                   IF items[i].id = id
                   THEN /\ DOMAIN items'[i] = DOMAIN items[i]
                        /\ \A k \in DOMAIN newProps :
                              items'[i][k] = newProps[k]
                        /\ \A k \in DOMAIN items[i] \ DOMAIN newProps :
                              items'[i][k] = items[i][k]
                   ELSE items'[i] = items[i]
             /\ UNCHANGED <<library, selectedItem, environment,
                            roomLightingPreset, furnitureLightingPreset,
                            roomLightIntensity, furnitureLightIntensity,
                            roomMaterialBrightness, transformMode,
                            roomBounds>>
             /\ (\A i \in DOMAIN items : items[i].id # id) =>
                   UNCHANGED storeVars]_vars

\* C18 happens: an item holds the position of one drag and the scale of
\* another, which only updates of single keys over an earlier value leave
C18_Witness ==
    /\ last = "updateItem"
    /\ \E i \in DOMAIN items :
          /\ items[i].position = <<2, 1, -3>>
          /\ items[i].scale = <<2, 2, 2>>
          /\ items[i].name = "chair.glb"


\* C20: deleteItem(id) leaves the selection at none in every case: when id
\* is the selected item, when it is another item than the selected one, and
\* when no item has the id.
C20_DeleteItemClearsSelection ==
    [][\A id \in StoreIds :
          (last' = "deleteItem" /\ deleteItem(id)) =>
             /\ selectedItem' = NullId
             /\ (selectedItem # NullId /\ selectedItem # id) =>
                   selectedItem' # selectedItem
             /\ \A i \in DOMAIN items' : items'[i].id # id]_vars

\* C20 happens: the item of the former selection is still in the scene
\* after a deleteItem, with the selection at none
C20_Witness ==
    /\ last = "deleteItem"
    /\ selectedItem = NullId
    /\ Len(items) = 1
    /\ items[1].id \in mounted

-----------------------------------------------------------------------------
(* Claims about the items' ids, under SpecIds *)

-----------------------------------------------------------------------------
(* Claims about the room's bounds, under Spec, and about the items'       *)
(* assets, under SpecLibrary                                              *)

\* C21: in every state with no commit due in which a room item of the scene
\* has its model loaded and its effect run, the bounds are present, also
\* after another room item was deleted and after a change of the brightness
\* ran the effect again.
C21_BoundsPresentWithRoom ==
    (~CommitPending /\ RoomIds(items) \cap mounted # {}) => roomBounds # Null

\* C22: every item of the scene has the url of an entry that is in the
\* library, in any state that addLibraryItem, removing library assets,
\* adding items from library entries, updateItem with a transform,
\* deleteItem, saving and loading saved scenes reach.
C22_NoOrphanItems ==
    \A i \in DOMAIN items :
       \E j \in DOMAIN library : library[j].url = items[i].url

\* C22 happens: both assets were taken in, an item was added from each, one
\* was dragged, the scene was saved, and a load of a saved scene has just
\* put two items of different assets and a library of one entry for each
\* into the store
C22_Witness ==
    /\ last = "loadScene"
    /\ download # Null
    /\ Len(library) = 2
    /\ Len(items) = 2
    /\ items[1].url # items[2].url
    /\ \E i \in DOMAIN items : items[i].scale = <<2, 2, 2>>
    /\ \A i \in DOMAIN items :
          \E j \in DOMAIN library : library[j].url = items[i].url

=============================================================================
